---- MODULE Spec2Model ----
(***************************************************************************)
(* Model of server/main.py: the AI image enhancer service.                 *)
(*                                                                         *)
(* State: the two global model instances, the weight files of the local   *)
(* cache, the position of the lifespan / load_models sequence, and the     *)
(* request that is being served with its response.                         *)
(*                                                                         *)
(* The request handlers are coroutines without any await, so each handler  *)
(* runs to completion on the event loop: one action per handler.           *)
(*                                                                         *)
(* A string is modelled by the list of its comma-separated segments, which *)
(* is what str.split(',') returns: "a,b" is <<"a","b">>, and a string has  *)
(* a comma exactly when the list has two or more segments.                 *)
(***************************************************************************)
EXTENDS Integers, Sequences, FiniteSets, TLC

VARIABLES
    pc,                 \* position in lifespan / load_models
    realesrgan_model,   \* global, None or the RealESRGANer instance
    gfpgan_model,       \* global, None or the GFPGANer instance
    weights,            \* which weight files exist under weights/
    faulted,            \* the acquisitions in which a step raised
    load_calls,         \* number of load_models invocations
    request,            \* the EnhanceRequest being served, or NoRequest
    response            \* the handler's result with its call trace, or NoResponse

vars == <<pc, realesrgan_model, gfpgan_model, weights, faulted, load_calls,
          request, response>>

----------------------------------------------------------------------------
(* Bounds *)

\* longest request string, in comma-separated segments
MaxSegs == 2

\* largest scale a client sends (scales 0..MaxScale, and null)
MaxScale == 4

\* most requests in flight at a time when handlers are taken step by step
MaxInFlight == 2

\* most commas in a string given to decode_base64_image on its own
MaxCommas == 2

----------------------------------------------------------------------------
(* Values *)

None == [kind |-> "None"]

\* Optional[T] fields: {} is None, {v} is the value v
Null == {}

NoRequest == [endpoint |-> "none"]

NoResponse == [status |-> 0]

\* segments a client string is made of
HDR == "data:image/png;base64"

PNG_A == "b64(png A 100x80)"

PNG_B == "b64(png B 3x2)"

JUNK == "b64(hello)"

BAD64 == "abc"

Segments == {HDR, PNG_A, PNG_B, JUNK, BAD64}

Strings == UNION {[1..n -> Segments] : n \in 1..MaxSegs}

----------------------------------------------------------------------------
(* EnhanceRequest: field defaults *)

\* scale: Optional[int] = 2
DefaultScale == 2

\* enhance_face: Optional[bool] = False
DefaultEnhanceFace == FALSE

\* denoise_strength: Optional[float] = 0.5, in tenths
DefaultDenoiseTenths == 5

Omitted == [given |-> FALSE]

Given(v) == [given |-> TRUE, val |-> v]

\* the values a client puts in the scale field: absent, null, or an integer
ScaleInputs == {Omitted, Given(Null)} \cup {Given({n}) : n \in 0..MaxScale}

EnhanceFaceInputs == {Omitted, Given({TRUE}), Given({FALSE})}

DenoiseInputs == {Omitted, Given({10})}

FieldOr(field, default) == IF field.given THEN field.val ELSE {default}

EnhanceRequest(image, scale, enhance_face, denoise_strength) ==
    [image |-> image,
     scale |-> FieldOr(scale, DefaultScale),
     enhance_face |-> FieldOr(enhance_face, DefaultEnhanceFace),
     denoise_strength |-> FieldOr(denoise_strength, DefaultDenoiseTenths)]

----------------------------------------------------------------------------
(* Image codec *)

Ok(v) == [ok |-> TRUE, val |-> v]

Raise(msg) == [ok |-> FALSE, err |-> msg]

\* base64.b64decode of a comma-free string
b64decode(seg) ==
    CASE seg = PNG_A -> Ok("png A")
      [] seg = PNG_B -> Ok("png B")
      [] seg = JUNK  -> Ok("hello")
      [] OTHER       -> Raise("Incorrect padding")

\* Image.open(...).convert('RGB') followed by np.array
ImageOpen(bytes) ==
    CASE bytes = "png A" -> Ok([src |-> "A", w |-> 100, h |-> 80, order |-> "RGB", ops |-> <<>>])
      [] bytes = "png B" -> Ok([src |-> "B", w |-> 3, h |-> 2, order |-> "RGB", ops |-> <<>>])
      [] OTHER           -> Raise("cannot identify image file")

\* cv2.cvtColor(.., COLOR_RGB2BGR) and COLOR_BGR2RGB: swap the channel order
cvtColor(img) ==
    [img EXCEPT !.order = IF img.order = "RGB" THEN "BGR" ELSE "RGB"]

\* the payload decode_base64_image hands to b64decode
Payload(base64_str) ==
    IF Len(base64_str) >= 2 THEN base64_str[2] ELSE base64_str[1]

decode_base64_image(base64_str) ==
    LET img_data == b64decode(Payload(base64_str))
    IN  IF ~img_data.ok THEN img_data
        ELSE LET img == ImageOpen(img_data.val)
             IN  IF ~img.ok THEN img ELSE Ok(cvtColor(img.val))

encode_image_base64(img) ==
    <<HDR, [b64 |-> [png |-> cvtColor(img)]]>>

----------------------------------------------------------------------------
(* The model collaborators.  What a call returns is the library's business: *)
(* behaviour "ok" is a collaborator that returns an image, "raise" one that *)
(* raises.                                                                  *)

Behaviours == {"ok", "raise"}

Envs == [sr : Behaviours, fr : Behaviours]

NoImage == [src |-> "none"]

\* RealESRGANer(scale=4, ...)
RealESRGANer == [kind |-> "RealESRGANer", scale |-> 4]

\* GFPGANer always bound to a Real-ESRGAN background upsampler
GFPGANer_bound(bg_upsampler) ==
    [kind |-> "GFPGANer", upscale |-> 4, bg_upsampler |-> RealESRGANer]

\* GFPGANer(upscale=4, ..., bg_upsampler=realesrgan_model)
GFPGANer(bg_upsampler) ==
    [kind |-> "GFPGANer", upscale |-> 4, bg_upsampler |-> bg_upsampler]

Scaled(img, factor, op) ==
    [img EXCEPT !.w = @ * factor, !.h = @ * factor, !.ops = Append(@, op)]

\* model.enhance(img, outscale=outscale) on the Real-ESRGAN instance
realesrgan_enhance(model, img, outscale, behaviour) ==
    IF model = None THEN Raise("'NoneType' object has no attribute 'enhance'")
    ELSE IF behaviour = "raise" THEN Raise("Real-ESRGAN inference error")
    ELSE LET factor == IF outscale = Null THEN model.scale
                       ELSE CHOOSE n \in outscale : TRUE
         IN  IF factor < 1 THEN Raise("resize to an empty image")
             ELSE Ok(Scaled(img, factor, [by |-> "realesrgan", outscale |-> outscale]))

\* model.enhance(img, has_aligned=False, only_center_face=False, paste_back=True)
gfpgan_enhance(model, img, behaviour) ==
    IF model = None THEN Raise("'NoneType' object has no attribute 'enhance'")
    ELSE IF behaviour = "raise" THEN Raise("GFPGAN inference error")
    ELSE Ok(Scaled(img, model.upscale,
                   [by |-> "gfpgan", bg_upsampler |-> model.bg_upsampler # None]))

----------------------------------------------------------------------------
(* The body of a handler's try block: a statement runs only while no       *)
(* earlier one raised, and every call is recorded in the trace.            *)

Try == [ok |-> TRUE, output |-> NoImage, err |-> "", trace |-> <<>>]

Ran(st, r, event) ==
    [ok |-> r.ok,
     output |-> IF r.ok THEN r.val ELSE NoImage,
     err |-> IF r.ok THEN "" ELSE r.err,
     trace |-> Append(st.trace,
                 [op |-> event.op, arg |-> event.arg, ok |-> r.ok,
                  ret |-> IF r.ok THEN r.val ELSE NoImage])]

\* img = decode_base64_image(request.image)
Decode(st, image) ==
    IF ~st.ok THEN st
    ELSE Ran(st, decode_base64_image(image), [op |-> "decode", arg |-> [image |-> image]])

\* output, _ = realesrgan_model.enhance(output, outscale=request.scale)
InvokeRealESRGAN(st, scale, behaviour) ==
    IF ~st.ok THEN st
    ELSE Ran(st, realesrgan_enhance(realesrgan_model, st.output, scale, behaviour),
             [op |-> "realesrgan", arg |-> [img |-> st.output, outscale |-> scale]])

\* _, _, output = gfpgan_model.enhance(output, ...)
InvokeGFPGAN(st, behaviour) ==
    IF ~st.ok THEN st
    ELSE Ran(st, gfpgan_enhance(gfpgan_model, st.output, behaviour),
             [op |-> "gfpgan", arg |-> [img |-> st.output]])

NoBody == [image |-> <<>>]

HTTPException(status_code, detail, trace) ==
    [status |-> status_code, detail |-> detail, body |-> NoBody, trace |-> trace]

\* Finish with the except clause answering 503
Finish_unavailable(st, message) ==
    IF ~st.ok THEN HTTPException(503, st.err, st.trace)
    ELSE [status |-> 200, detail |-> "",
          body |-> [image |-> encode_image_base64(st.output),
                    width |-> st.output.w,
                    height |-> st.output.h,
                    message |-> message],
          trace |-> Append(st.trace, [op |-> "encode", arg |-> [img |-> st.output],
                                      ok |-> TRUE, ret |-> NoImage])]

\* Finish with the except clause dropping the message of the error
Finish_generic(st, message) ==
    IF ~st.ok THEN HTTPException(500, "Internal Server Error", st.trace)
    ELSE [status |-> 200, detail |-> "",
          body |-> [image |-> encode_image_base64(st.output),
                    width |-> st.output.w,
                    height |-> st.output.h,
                    message |-> message],
          trace |-> Append(st.trace, [op |-> "encode", arg |-> [img |-> st.output],
                                      ok |-> TRUE, ret |-> NoImage])]

\* Finish reading the width from shape[0] and the height from shape[1]
Finish_swapped_dims(st, message) ==
    IF ~st.ok THEN HTTPException(500, st.err, st.trace)
    ELSE [status |-> 200, detail |-> "",
          body |-> [image |-> encode_image_base64(st.output),
                    width |-> st.output.h,
                    height |-> st.output.w,
                    message |-> message],
          trace |-> Append(st.trace, [op |-> "encode", arg |-> [img |-> st.output],
                                      ok |-> TRUE, ret |-> NoImage])]

\* result_base64 = encode_image_base64(output); return EnhanceResponse(...);
\* except Exception as e: raise HTTPException(status_code=500, detail=str(e))
Finish(st, message) ==
    IF ~st.ok THEN HTTPException(500, st.err, st.trace)
    ELSE [status |-> 200, detail |-> "",
          body |-> [image |-> encode_image_base64(st.output),
                    width |-> st.output.w,
                    height |-> st.output.h,
                    message |-> message],
          trace |-> Append(st.trace, [op |-> "encode", arg |-> [img |-> st.output],
                                      ok |-> TRUE, ret |-> NoImage])]

\* str(request.scale)
ScaleStr(scale) ==
    IF scale = Null THEN "None"
    ELSE LET n == CHOOSE k \in scale : TRUE
         IN  CASE n = 0 -> "0" [] n = 1 -> "1" [] n = 2 -> "2" [] n = 3 -> "3"
               [] n = 4 -> "4" [] n = 5 -> "5" [] n = 6 -> "6" [] OTHER -> "n"

----------------------------------------------------------------------------
(* The handlers *)

\* root reporting each model under the other's key
root_swapped ==
    [status |-> 200, detail |-> "",
     body |-> [status |-> "running",
               realesrgan |-> gfpgan_model # None,
               gfpgan |-> realesrgan_model # None],
     trace |-> <<>>]

root ==
    [status |-> 200, detail |-> "",
     body |-> [status |-> "running",
               realesrgan |-> realesrgan_model # None,
               gfpgan |-> gfpgan_model # None],
     trace |-> <<>>]

health ==
    [status |-> 200, detail |-> "", body |-> [status |-> "healthy"], trace |-> <<>>]

\* enhance_image without its availability check
enhance_image_unchecked(req, env) ==
    Finish(InvokeRealESRGAN(Decode(Try, req.image), req.scale, env.sr),
           <<"Enhancement successful">>)

\* enhance_image calling Real-ESRGAN without the outscale argument
enhance_image_noscale(req, env) ==
    IF realesrgan_model = None
    THEN HTTPException(503, "Real-ESRGAN model not loaded", <<>>)
    ELSE Finish(InvokeRealESRGAN(Decode(Try, req.image), Null, env.sr),
                <<"Enhancement successful">>)

enhance_image(req, env) ==
    IF realesrgan_model = None
    THEN HTTPException(503, "Real-ESRGAN model not loaded", <<>>)
    ELSE Finish(InvokeRealESRGAN(Decode(Try, req.image), req.scale, env.sr),
                <<"Enhancement successful">>)

\* upscale_image leaving the image as decoded unless denoise_strength is 0.5
upscale_image_denoise(req, env) ==
    IF realesrgan_model = None
    THEN HTTPException(503, "Real-ESRGAN model not loaded", <<>>)
    ELSE IF req.denoise_strength = {DefaultDenoiseTenths}
    THEN Finish(InvokeRealESRGAN(Decode(Try, req.image), req.scale, env.sr),
                <<"Upscaled to ", ScaleStr(req.scale), "x">>)
    ELSE Finish(Decode(Try, req.image),
                <<"Upscaled to ", ScaleStr(req.scale), "x">>)

upscale_image(req, env) ==
    IF realesrgan_model = None
    THEN HTTPException(503, "Real-ESRGAN model not loaded", <<>>)
    ELSE Finish(InvokeRealESRGAN(Decode(Try, req.image), req.scale, env.sr),
                <<"Upscaled to ", ScaleStr(req.scale), "x">>)

\* enhance_face without its availability check
enhance_face_unchecked(req, env) ==
    Finish(InvokeGFPGAN(Decode(Try, req.image), env.fr),
           <<"Face enhancement successful">>)

enhance_face(req, env) ==
    IF gfpgan_model = None
    THEN HTTPException(503, "GFPGAN model not loaded", <<>>)
    ELSE Finish(InvokeGFPGAN(Decode(Try, req.image), env.fr),
                <<"Face enhancement successful">>)

\* the truth value of request.enhance_face
Truthy(opt) == opt = {TRUE}

\* step 1 without the test of request.enhance_face
FaceStep_always(st, req, env) ==
    IF st.ok /\ gfpgan_model # None THEN InvokeGFPGAN(st, env.fr) ELSE st

\* step 1 catching a GFPGAN failure and going on with the buffer it was given
FaceStep_swallow(st, req, env) ==
    IF st.ok /\ Truthy(req.enhance_face) /\ gfpgan_model # None
    THEN LET r == InvokeGFPGAN(st, env.fr)
         IN  IF r.ok THEN r ELSE [st EXCEPT !.trace = r.trace]
    ELSE st

\* Step 1: Face enhancement (optional)
FaceStep(st, req, env) ==
    IF st.ok /\ Truthy(req.enhance_face) /\ gfpgan_model # None
    THEN InvokeGFPGAN(st, env.fr)
    ELSE st

\* step 2 without the test of realesrgan_model
UpscaleStep_unguarded(st, req, env) ==
    IF st.ok THEN InvokeRealESRGAN(st, req.scale, env.sr) ELSE st

\* Step 2: General enhancement + upscale with Real-ESRGAN
UpscaleStep(st, req, env) ==
    IF st.ok /\ realesrgan_model # None
    THEN InvokeRealESRGAN(st, req.scale, env.sr)
    ELSE st

\* process_image with its two steps in the other order
process_image_swapped(req, env) ==
    Finish(FaceStep(UpscaleStep(Decode(Try, req.image), req, env), req, env),
           <<"Processing complete">>)

\* process_image with a hard requirement on Real-ESRGAN
process_image_hard(req, env) ==
    IF realesrgan_model = None
    THEN HTTPException(503, "Real-ESRGAN model not loaded", <<>>)
    ELSE Finish(UpscaleStep(FaceStep(Decode(Try, req.image), req, env), req, env),
                <<"Processing complete">>)

process_image(req, env) ==
    Finish(UpscaleStep(FaceStep(Decode(Try, req.image), req, env), req, env),
           <<"Processing complete">>)

\* the handler the application routes a POST endpoint to
Handle(ep, req, env) ==
    CASE ep = "/enhance" -> enhance_image(req, env)
      [] ep = "/upscale" -> upscale_image(req, env)
      [] ep = "/enhance-face" -> enhance_face(req, env)
      [] ep = "/process" -> process_image(req, env)

----------------------------------------------------------------------------
(* Startup: lifespan calls load_models, then the service accepts requests  *)

Caps == {"sr", "fr"}

Init ==
    /\ pc = "boot"
    /\ realesrgan_model = None
    /\ gfpgan_model = None
    /\ weights \in [Caps -> BOOLEAN]
    /\ faulted = [c \in Caps |-> FALSE]
    /\ load_calls = 0
    /\ request = NoRequest
    /\ response = NoResponse

\* lifespan: load_models() is entered
LoadModels ==
    /\ pc = "boot"
    /\ pc' = "sr_import"
    /\ load_calls' = load_calls + 1
    /\ UNCHANGED <<realesrgan_model, gfpgan_model, weights, faulted, request, response>>

\* the Real-ESRGAN failure leaving load_models instead of being caught
RealESRGANFailed_propagates ==
    /\ pc' = "aborted"
    /\ UNCHANGED <<realesrgan_model, gfpgan_model>>

\* except Exception as e: realesrgan_model = None
RealESRGANFailed ==
    /\ realesrgan_model' = None
    /\ pc' = "fr_import"
    /\ UNCHANGED gfpgan_model

\* except Exception as e: gfpgan_model = None; load_models returns, lifespan yields
GFPGANFailed ==
    /\ gfpgan_model' = None
    /\ pc' = "serving"
    /\ UNCHANGED realesrgan_model

Fault(cap) == faulted' = [faulted EXCEPT ![cap] = TRUE]

\* from realesrgan import RealESRGANer; from basicsr... import RRDBNet; RRDBNet(...)
RealESRGANImport ==
    /\ pc = "sr_import"
    /\ \E raised \in BOOLEAN :
          IF raised
          THEN Fault("sr") /\ RealESRGANFailed
          ELSE pc' = "sr_weights" /\ UNCHANGED <<realesrgan_model, gfpgan_model, faulted>>
    /\ UNCHANGED <<weights, load_calls, request, response>>

\* if not os.path.exists(model_path): makedirs; urlretrieve(url, model_path)
RealESRGANWeights ==
    /\ pc = "sr_weights"
    /\ IF weights["sr"]
       THEN pc' = "sr_create" /\ UNCHANGED <<realesrgan_model, gfpgan_model, faulted, weights>>
       ELSE \E raised \in BOOLEAN :
              IF raised
              THEN Fault("sr") /\ RealESRGANFailed /\ UNCHANGED weights
              ELSE /\ weights' = [weights EXCEPT !["sr"] = TRUE]
                   /\ pc' = "sr_create"
                   /\ UNCHANGED <<realesrgan_model, gfpgan_model, faulted>>
    /\ UNCHANGED <<load_calls, request, response>>

\* realesrgan_model = RealESRGANer(scale=4, model_path=model_path, ...)
RealESRGANCreate ==
    /\ pc = "sr_create"
    /\ \E raised \in BOOLEAN :
          IF raised
          THEN Fault("sr") /\ RealESRGANFailed
          ELSE /\ realesrgan_model' = RealESRGANer
               /\ pc' = "fr_import"
               /\ UNCHANGED <<gfpgan_model, faulted>>
    /\ UNCHANGED <<weights, load_calls, request, response>>

\* from gfpgan import GFPGANer
GFPGANImport ==
    /\ pc = "fr_import"
    /\ \E raised \in BOOLEAN :
          IF raised
          THEN Fault("fr") /\ GFPGANFailed
          ELSE pc' = "fr_weights" /\ UNCHANGED <<realesrgan_model, gfpgan_model, faulted>>
    /\ UNCHANGED <<weights, load_calls, request, response>>

\* if not os.path.exists(model_path): makedirs; urlretrieve(url, model_path)
GFPGANWeights ==
    /\ pc = "fr_weights"
    /\ IF weights["fr"]
       THEN pc' = "fr_create" /\ UNCHANGED <<realesrgan_model, gfpgan_model, faulted, weights>>
       ELSE \E raised \in BOOLEAN :
              IF raised
              THEN Fault("fr") /\ GFPGANFailed /\ UNCHANGED weights
              ELSE /\ weights' = [weights EXCEPT !["fr"] = TRUE]
                   /\ pc' = "fr_create"
                   /\ UNCHANGED <<realesrgan_model, gfpgan_model, faulted>>
    /\ UNCHANGED <<load_calls, request, response>>

\* gfpgan_model = GFPGANer(..., bg_upsampler=realesrgan_model); load_models returns
GFPGANCreate ==
    /\ pc = "fr_create"
    /\ \E raised \in BOOLEAN :
          IF raised
          THEN Fault("fr") /\ GFPGANFailed
          ELSE /\ gfpgan_model' = GFPGANer(realesrgan_model)
               /\ pc' = "serving"
               /\ UNCHANGED <<realesrgan_model, faulted>>
    /\ UNCHANGED <<weights, load_calls, request, response>>

\* lifespan after the yield: the server shuts down once it is idle
Shutdown ==
    /\ pc = "serving"
    /\ request = NoRequest
    /\ pc' = "stopped"
    /\ UNCHANGED <<realesrgan_model, gfpgan_model, weights, faulted, load_calls,
                   request, response>>

----------------------------------------------------------------------------
(* Serving *)

PostEndpoints == {"/enhance", "/upscale", "/enhance-face", "/process"}

GetEndpoints == {"/", "/health"}

\* requests accepted while load_models is still running
Accepting_early == pc # "stopped"

\* the application accepts requests once the lifespan startup has completed
Accepting == pc = "serving"

globals == <<pc, realesrgan_model, gfpgan_model, weights, faulted, load_calls>>

\* a request arrives and its body is parsed into an EnhanceRequest
Receive ==
    /\ Accepting
    /\ request = NoRequest
    /\ \/ \E ep \in GetEndpoints : request' = [endpoint |-> ep]
       \/ \E ep \in PostEndpoints, img \in Strings, sc \in ScaleInputs,
             face \in EnhanceFaceInputs, dn \in DenoiseInputs :
             request' = [endpoint |-> ep,
                         body |-> EnhanceRequest(img, sc, face, dn)]
    /\ UNCHANGED <<globals, response>>

Pending(ep) == request.endpoint = ep /\ response = NoResponse

Root ==
    /\ Pending("/")
    /\ response' = root
    /\ UNCHANGED <<globals, request>>

Health ==
    /\ Pending("/health")
    /\ response' = health
    /\ UNCHANGED <<globals, request>>

\* EnhanceImage giving up the model after a failed request
EnhanceImage_dropsModel ==
    /\ Pending("/enhance")
    /\ \E env \in Envs : response' = enhance_image(request.body, env)
    /\ realesrgan_model' = IF response'.status = 500 THEN None ELSE realesrgan_model
    /\ UNCHANGED <<pc, gfpgan_model, weights, faulted, load_calls, request>>

EnhanceImage ==
    /\ Pending("/enhance")
    /\ \E env \in Envs : response' = enhance_image(request.body, env)
    /\ UNCHANGED <<globals, request>>

UpscaleImage ==
    /\ Pending("/upscale")
    /\ \E env \in Envs : response' = upscale_image(request.body, env)
    /\ UNCHANGED <<globals, request>>

EnhanceFace ==
    /\ Pending("/enhance-face")
    /\ \E env \in Envs : response' = enhance_face(request.body, env)
    /\ UNCHANGED <<globals, request>>

ProcessImage ==
    /\ Pending("/process")
    /\ \E env \in Envs : response' = process_image(request.body, env)
    /\ UNCHANGED <<globals, request>>

\* the response is sent and the connection is done
Respond ==
    /\ request # NoRequest
    /\ response # NoResponse
    /\ request' = NoRequest
    /\ response' = NoResponse
    /\ UNCHANGED globals

Next ==
    \/ LoadModels
    \/ RealESRGANImport
    \/ RealESRGANWeights
    \/ RealESRGANCreate
    \/ GFPGANImport
    \/ GFPGANWeights
    \/ GFPGANCreate
    \/ Shutdown
    \/ Receive
    \/ Root
    \/ Health
    \/ EnhanceImage
    \/ UpscaleImage
    \/ EnhanceFace
    \/ ProcessImage
    \/ Respond

Spec == Init /\ [][Next]_vars

----------------------------------------------------------------------------
(* decode_base64_image on its own: the string is drawn at the start, the   *)
(* one step applies the function and keeps the payload it cut out.         *)

DecodeStrings == UNION {[1..n -> Segments] : n \in 1..(MaxCommas + 1)}

InitDecode ==
    /\ pc = "decode"
    /\ realesrgan_model = None
    /\ gfpgan_model = None
    /\ weights = [c \in Caps |-> FALSE]
    /\ faulted = [c \in Caps |-> FALSE]
    /\ load_calls = 0
    /\ request \in {[endpoint |-> "decode", body |-> [image |-> str]] :
                       str \in DecodeStrings}
    /\ response = NoResponse

DecodeApply ==
    /\ pc = "decode"
    /\ response = NoResponse
    /\ response' = [payload |-> Payload(request.body.image),
                    result |-> decode_base64_image(request.body.image)]
    /\ UNCHANGED <<globals, request>>

NextDecode == DecodeApply

SpecDecode == InitDecode /\ [][NextDecode]_vars

----------------------------------------------------------------------------
(* Requests in flight together.  Here request and response hold one entry  *)
(* per connection, and a handler is taken statement by statement, every    *)
(* statement reading the globals when it runs: any interleaving of the     *)
(* handlers' statements is a behaviour.  The collaborators are functions   *)
(* of their input: how they behave on a request is fixed with the request. *)

Slots == 1..MaxInFlight

\* the collaborators both succeed on a request's image, or both raise on it
ConcEnvs == {[sr |-> b, fr |-> b] : b \in Behaviours}

\* the requests sent: the data URL of image A with enhance_face set
ConcRequests ==
    {[endpoint |-> ep,
      body |-> EnhanceRequest(<<HDR, PNG_A>>, Omitted, Given({TRUE}), Omitted),
      env |-> env] :
        ep \in PostEndpoints, env \in ConcEnvs}

Idle == [stage |-> "idle", st |-> Try, out |-> NoResponse, mixed |-> FALSE]

InHandler == {"check", "decode", "face", "upscale", "encode"}

InitConc ==
    /\ pc = "boot"
    /\ realesrgan_model = None
    /\ gfpgan_model = None
    /\ weights = [c \in Caps |-> TRUE]
    /\ faulted = [c \in Caps |-> FALSE]
    /\ load_calls = 0
    /\ request = [s \in Slots |-> NoRequest]
    /\ response = [s \in Slots |-> Idle]

\* slot s goes to stage with try state st and answer out; it is marked when
\* the step is taken while another request is inside its handler
Advance(s, stage, st, out) ==
    response' = [response EXCEPT ![s] =
                   [stage |-> stage, st |-> st, out |-> out,
                    mixed |-> \/ response[s].mixed
                              \/ \E t \in Slots \ {s} : response[t].stage \in InHandler]]

ConcReceive ==
    /\ Accepting
    /\ \E s \in Slots :
          /\ request[s] = NoRequest
          /\ \E r \in ConcRequests : request' = [request EXCEPT ![s] = r]
          /\ Advance(s, "check", Try, NoResponse)
    /\ UNCHANGED globals

\* if <model> is None: raise HTTPException(status_code=503, ...)
ConcCheck ==
    /\ \E s \in Slots :
          /\ response[s].stage = "check"
          /\ LET ep == request[s].endpoint
             IN  IF /\ ep # "/process"
                    /\ (IF ep = "/enhance-face" THEN gfpgan_model ELSE realesrgan_model) = None
                 THEN Advance(s, "done", Try,
                        HTTPException(503,
                          IF ep = "/enhance-face" THEN "GFPGAN model not loaded"
                          ELSE "Real-ESRGAN model not loaded", <<>>))
                 ELSE Advance(s, "decode", Try, NoResponse)
    /\ UNCHANGED <<globals, request>>

\* img = decode_base64_image(request.image)
ConcDecode ==
    /\ \E s \in Slots :
          /\ response[s].stage = "decode"
          /\ Advance(s,
                IF request[s].endpoint \in {"/enhance", "/upscale"} THEN "upscale" ELSE "face",
                Decode(response[s].st, request[s].body.image), NoResponse)
    /\ UNCHANGED <<globals, request>>

\* the gfpgan_model.enhance statement of enhance_face and of process_image
ConcFace ==
    /\ \E s \in Slots :
          /\ response[s].stage = "face"
          /\ IF request[s].endpoint = "/process"
             THEN Advance(s, "upscale",
                    FaceStep(response[s].st, request[s].body, request[s].env), NoResponse)
             ELSE Advance(s, "encode",
                    InvokeGFPGAN(response[s].st, request[s].env.fr), NoResponse)
    /\ UNCHANGED <<globals, request>>

\* ConcUpscale giving up the Real-ESRGAN model when its call has raised
ConcUpscale_dropsModel ==
    /\ \E s \in Slots :
          /\ response[s].stage = "upscale"
          /\ LET st == IF request[s].endpoint = "/process"
                       THEN UpscaleStep(response[s].st, request[s].body, request[s].env)
                       ELSE InvokeRealESRGAN(response[s].st, request[s].body.scale,
                                             request[s].env.sr)
             IN  /\ Advance(s, "encode", st, NoResponse)
                 /\ realesrgan_model' =
                       IF response[s].st.ok /\ ~st.ok THEN None ELSE realesrgan_model
    /\ UNCHANGED <<pc, gfpgan_model, weights, faulted, load_calls, request>>

\* the realesrgan_model.enhance statement of enhance_image, upscale_image and
\* process_image
ConcUpscale ==
    /\ \E s \in Slots :
          /\ response[s].stage = "upscale"
          /\ IF request[s].endpoint = "/process"
             THEN Advance(s, "encode",
                    UpscaleStep(response[s].st, request[s].body, request[s].env), NoResponse)
             ELSE Advance(s, "encode",
                    InvokeRealESRGAN(response[s].st, request[s].body.scale,
                                     request[s].env.sr), NoResponse)
    /\ UNCHANGED <<globals, request>>

\* the message of the handler's EnhanceResponse
Message(ep, req) ==
    CASE ep = "/enhance" -> <<"Enhancement successful">>
      [] ep = "/upscale" -> <<"Upscaled to ", ScaleStr(req.scale), "x">>
      [] ep = "/enhance-face" -> <<"Face enhancement successful">>
      [] ep = "/process" -> <<"Processing complete">>

\* encode and return EnhanceResponse, or the except clause
ConcFinish ==
    /\ \E s \in Slots :
          /\ response[s].stage = "encode"
          /\ Advance(s, "done", response[s].st,
                Finish(response[s].st, Message(request[s].endpoint, request[s].body)))
    /\ UNCHANGED <<globals, request>>

ConcRespond ==
    /\ \E s \in Slots :
          /\ response[s].stage = "done"
          /\ request' = [request EXCEPT ![s] = NoRequest]
          /\ response' = [response EXCEPT ![s] = Idle]
    /\ UNCHANGED globals

NextConc ==
    \/ LoadModels
    \/ RealESRGANImport
    \/ RealESRGANWeights
    \/ RealESRGANCreate
    \/ GFPGANImport
    \/ GFPGANWeights
    \/ GFPGANCreate
    \/ ConcReceive
    \/ ConcCheck
    \/ ConcDecode
    \/ ConcFace
    \/ ConcUpscale
    \/ ConcFinish
    \/ ConcRespond

SpecConc == InitConc /\ [][NextConc]_vars

----------------------------------------------------------------------------
(* Vocabulary of the properties *)

\* a handler has run for the request being served
Handled == request # NoRequest /\ response # NoResponse

HandledAt(ep) == Handled /\ request.endpoint = ep

HandledPost == Handled /\ request.endpoint \in PostEndpoints

\* the positions of the trace at which op was called
Calls(op) == {i \in DOMAIN response.trace : response.trace[i].op = op}

\* the capability an endpoint cannot do without
Required(ep) ==
    CASE ep \in {"/enhance", "/upscale"} -> realesrgan_model
      [] ep = "/enhance-face" -> gfpgan_model

\* the segments of a string that follow its first comma (the string itself
\* when it has no comma)
AfterPrefix(str) == IF Len(str) = 1 THEN {1} ELSE 2..Len(str)

\* nothing that could be the payload of the string is base64
MalformedBase64(str) == \A i \in AfterPrefix(str) : ~b64decode(str[i]).ok

DecodeErrors == {"Incorrect padding", "cannot identify image file"}

\* the image of the request decodes
Decodable == decode_base64_image(request.body.image).ok

Decoded == decode_base64_image(request.body.image).val

----------------------------------------------------------------------------
(* Properties *)

\* C1: on /enhance, /upscale (Real-ESRGAN) and /enhance-face (GFPGAN), when
\* the required model is not available every request, whatever its payload,
\* is answered 503 (never 500), and nothing is decoded and no model is called.
C1_UnavailableBeforeAnyWork ==
    \A ep \in {"/enhance", "/upscale", "/enhance-face"} :
        HandledAt(ep) /\ Required(ep) = None
            => /\ response.status = 503
               /\ response.trace = <<>>

\* a malformed payload sent to /enhance-face without GFPGAN has been answered
C1_Witness ==
    /\ HandledAt("/enhance-face")
    /\ gfpgan_model = None
    /\ realesrgan_model # None
    /\ MalformedBase64(request.body.image)

\* C2: a /process request with a decodable image, when neither model is
\* available, succeeds, and the buffer that is encoded is the decoded buffer,
\* for either value of enhance_face and any scale.
C2_ProcessPassThrough ==
    HandledAt("/process") /\ Decodable
      /\ realesrgan_model = None /\ gfpgan_model = None
        => /\ response.status = 200
           /\ Calls("gfpgan") = {} /\ Calls("realesrgan") = {}
           /\ \E i \in Calls("encode") : response.trace[i].arg.img = Decoded
           /\ response.body.image = encode_image_base64(Decoded)
           /\ response.body.width = Decoded.w
           /\ response.body.height = Decoded.h

\* /process with enhance_face set and a scale has passed image A through
C2_Witness ==
    /\ HandledAt("/process")
    /\ realesrgan_model = None /\ gfpgan_model = None
    /\ request.body.enhance_face = {TRUE}
    /\ request.body.scale = {3}
    /\ response.status = 200
    /\ response.body.width = 100

\* C3: in a /process request with enhance_face set while both models are
\* available, GFPGAN is called once the image is decoded, Real-ESRGAN is
\* called only after it, and Real-ESRGAN is given the buffer GFPGAN returned.
C3_FaceBeforeUpscale ==
    HandledAt("/process") /\ Truthy(request.body.enhance_face)
      /\ realesrgan_model # None /\ gfpgan_model # None
        => /\ Decodable => Calls("gfpgan") # {}
           /\ \A i \in Calls("realesrgan") :
                 \E j \in Calls("gfpgan") :
                    /\ j < i
                    /\ response.trace[j].ok
                    /\ response.trace[i].arg.img = response.trace[j].ret
           /\ \A j \in Calls("gfpgan") :
                 response.trace[j].ok => Calls("realesrgan") # {}

\* both models have been called in one /process request
C3_Witness ==
    /\ HandledAt("/process")
    /\ Truthy(request.body.enhance_face)
    /\ Calls("gfpgan") # {} /\ Calls("realesrgan") # {}
    /\ response.status = 200

\* C4 as stated: a malformed base64 payload sent to any of the four POST
\* endpoints, in any capability state, is answered 500 with a decode error
\* message, never 503.
C4_Original ==
    HandledPost /\ MalformedBase64(request.body.image)
        => /\ response.status = 500
           /\ response.detail \in DecodeErrors

\* C4, amended: a malformed base64 payload is answered 500 with a decode
\* error message on /process in any capability state, and on /enhance,
\* /upscale and /enhance-face when the required model is available; when the
\* required model is not available those three answer 503.
C4_MalformedPayload ==
    HandledPost /\ MalformedBase64(request.body.image)
        => IF request.endpoint # "/process" /\ Required(request.endpoint) = None
           THEN response.status = 503
           ELSE /\ response.status = 500
                /\ response.detail \in DecodeErrors
                /\ Calls("gfpgan") = {} /\ Calls("realesrgan") = {}

\* a malformed payload has been answered 500 by /upscale, Real-ESRGAN available
C4_Witness ==
    /\ HandledAt("/upscale")
    /\ MalformedBase64(request.body.image)
    /\ realesrgan_model # None
    /\ response.status = 500

\* C5: after load_models, GET / reports status "running", realesrgan true
\* exactly when the Real-ESRGAN load succeeded and gfpgan true exactly when
\* the GFPGAN load succeeded.
C5_RootReportsLoadOutcomes ==
    HandledAt("/")
        => /\ response.status = 200
           /\ response.body.status = "running"
           /\ response.body.realesrgan = ~faulted["sr"]
           /\ response.body.gfpgan = ~faulted["fr"]

\* GET / has answered false/true after a failed Real-ESRGAN load
C5_Witness ==
    /\ HandledAt("/")
    /\ faulted["sr"] /\ ~faulted["fr"]
    /\ response.body.realesrgan = FALSE
    /\ response.body.gfpgan = TRUE

\* the steps of load_models
LoadPcs == {"sr_import", "sr_weights", "sr_create", "fr_import", "fr_weights", "fr_create"}

LoadStep ==
    \/ RealESRGANImport \/ RealESRGANWeights \/ RealESRGANCreate
    \/ GFPGANImport \/ GFPGANWeights \/ GFPGANCreate

\* load_models has returned
LoadFinished == pc \in {"serving", "stopped"}

Model(cap) == IF cap = "sr" THEN realesrgan_model ELSE gfpgan_model

\* Unloaded: no load settled yet; Available: the instance exists; Unavailable:
\* the load was attempted and failed
CapState(cap) ==
    IF Model(cap) # None THEN "Available"
    ELSE IF faulted[cap] THEN "Unavailable" ELSE "Unloaded"

\* C6: load_models always goes on to its end: a failure at any step of one
\* model's acquisition leaves only that model unavailable, the other model's
\* load is still attempted, and whether a model is available depends only on
\* its own acquisition.
C6_LoadFailuresIsolated ==
    /\ pc \in {"boot"} \cup LoadPcs \cup {"serving", "stopped"}
    /\ pc \in LoadPcs => ENABLED LoadStep
    /\ faulted["sr"] => pc \in {"fr_import", "fr_weights", "fr_create", "serving", "stopped"}
    /\ faulted["fr"] => LoadFinished
    /\ LoadFinished => \A cap \in Caps : (Model(cap) # None) = ~faulted[cap]

\* GFPGAN is available after the Real-ESRGAN load failed
C6_Witness ==
    /\ LoadFinished
    /\ faulted["sr"] /\ realesrgan_model = None
    /\ ~faulted["fr"] /\ gfpgan_model # None

\* C7: once load_models has returned, no step of the service (a request to
\* any endpoint, also one that ends in a decode or an inference error)
\* changes either global model.
C7_ModelsFrozenAfterLoad ==
    [][LoadFinished =>
         /\ realesrgan_model' = realesrgan_model
         /\ gfpgan_model' = gfpgan_model]_vars

\* a request has ended in an inference error with Real-ESRGAN still in place
C7_Witness ==
    /\ HandledAt("/enhance")
    /\ response.status = 500
    /\ \E i \in Calls("realesrgan") : ~response.trace[i].ok
    /\ realesrgan_model # None

\* C8: load_models runs once, and a request is only ever received or handled
\* after it has returned, when both models have left the Unloaded state.
C8_LoadOnceBeforeRequests ==
    /\ load_calls <= 1
    /\ LoadFinished => load_calls = 1
    /\ request # NoRequest \/ response # NoResponse
          => /\ pc = "serving"
             /\ load_calls = 1
             /\ \A cap \in Caps : CapState(cap) # "Unloaded"

\* a request has been handled after a load in which Real-ESRGAN failed
C8_Witness ==
    /\ HandledAt("/process")
    /\ load_calls = 1
    /\ CapState("sr") = "Unavailable"
    /\ CapState("fr") = "Available"

FaceRequested == Truthy(request.body.enhance_face)

\* every step of the trace takes the buffer the step before it returned
Chained ==
    \A i \in DOMAIN response.trace :
        i > 1 => response.trace[i].arg.img = response.trace[i - 1].ret

\* C9 as stated: in a /process request whose image decodes, GFPGAN is called
\* exactly when enhance_face is set and GFPGAN is available, Real-ESRGAN is
\* called exactly when it is available, each at most once, and a skipped
\* stage hands its input buffer to the next stage.
C9_Original ==
    HandledAt("/process") /\ Decodable
        => /\ (Calls("gfpgan") # {}) = (FaceRequested /\ gfpgan_model # None)
           /\ (Calls("realesrgan") # {}) = (realesrgan_model # None)
           /\ Cardinality(Calls("gfpgan")) <= 1
           /\ Cardinality(Calls("realesrgan")) <= 1
           /\ Chained

\* C9, amended: in a /process request whose image decodes, GFPGAN is called
\* exactly when enhance_face is set and GFPGAN is available, Real-ESRGAN is
\* called exactly when it is available and the GFPGAN call, if there was one,
\* did not raise; each is called at most once, and every stage that runs
\* takes the buffer returned by the stage that ran before it.
C9_ProcessStages ==
    HandledAt("/process") /\ Decodable
        => /\ (Calls("gfpgan") # {}) = (FaceRequested /\ gfpgan_model # None)
           /\ (Calls("realesrgan") # {})
                 = /\ realesrgan_model # None
                   /\ \A j \in Calls("gfpgan") : response.trace[j].ok
           /\ Cardinality(Calls("gfpgan")) <= 1
           /\ Cardinality(Calls("realesrgan")) <= 1
           /\ response.trace[1].op = "decode" /\ response.trace[1].ret = Decoded
           /\ Chained

\* the GFPGAN call raised and Real-ESRGAN, though available, was not called
C9_Witness ==
    /\ HandledAt("/process")
    /\ realesrgan_model # None
    /\ \E j \in Calls("gfpgan") : ~response.trace[j].ok
    /\ Calls("realesrgan") = {}

\* C10: /process never answers 503; with a decodable image and models that
\* do not raise it succeeds, whichever of the two models are available.
C10_ProcessSoftRequirements ==
    HandledAt("/process")
        => /\ response.status # 503
           /\ Decodable /\ (\A i \in DOMAIN response.trace : response.trace[i].ok)
                 => response.status = 200

\* /process has succeeded with GFPGAN alone
C10_Witness ==
    /\ HandledAt("/process")
    /\ realesrgan_model = None /\ gfpgan_model # None
    /\ FaceRequested
    /\ Calls("gfpgan") # {}
    /\ response.status = 200

\* the calls a handler makes
Ops == {"decode", "gfpgan", "realesrgan", "encode"}

\* the messages of the exceptions a call can raise
RaisedBy(op) ==
    CASE op = "decode" -> DecodeErrors
      [] op = "gfpgan" -> {"GFPGAN inference error"}
      [] op = "realesrgan" -> {"Real-ESRGAN inference error", "resize to an empty image"}
      [] OTHER -> {}

Output == response.trace[Len(response.trace) - 1].ret

\* C13: the width and height of a successful answer are those of the output
\* buffer, not of the input: /upscale of a w x h image with scale s and a
\* Real-ESRGAN that multiplies by the scale reports w*s and h*s.
C13_DimensionsOfOutput ==
    HandledPost /\ response.status = 200
        => /\ response.body.width = Output.w
           /\ response.body.height = Output.h
           /\ HandledAt("/upscale")
                 => \A s \in request.body.scale :
                       /\ response.body.width = Decoded.w * s
                       /\ response.body.height = Decoded.h * s

\* /upscale of the 100 x 80 image with scale 3 has answered 300 x 240
C13_Witness ==
    /\ HandledAt("/upscale")
    /\ Decodable /\ Decoded.w = 100 /\ Decoded.h = 80
    /\ request.body.scale = {3}
    /\ response.status = 200
    /\ response.body.width = 300 /\ response.body.height = 240

\* C14: on all four operations a model is called only while it is available.
C14_CalledOnlyWhenAvailable ==
    HandledPost
        => /\ Calls("realesrgan") # {} => realesrgan_model # None
           /\ Calls("gfpgan") # {} => gfpgan_model # None
           /\ response.detail # "'NoneType' object has no attribute 'enhance'"

\* /enhance-face has called GFPGAN while Real-ESRGAN never loaded
C14_Witness ==
    /\ HandledAt("/enhance-face")
    /\ realesrgan_model = None /\ gfpgan_model # None
    /\ Calls("gfpgan") # {}
    /\ response.status = 200

\* C17: the Real-ESRGAN load is settled before the GFPGAN acquisition begins;
\* GFPGAN gets the Real-ESRGAN instance as bg_upsampler exactly when that
\* instance exists then, and without it GFPGAN still becomes available when
\* its own acquisition succeeds.
C17_OptionalBackgroundUpsampler ==
    /\ pc \in {"fr_import", "fr_weights", "fr_create"} => CapState("sr") # "Unloaded"
    /\ gfpgan_model # None => gfpgan_model.bg_upsampler = realesrgan_model
    /\ LoadFinished /\ ~faulted["fr"] => gfpgan_model # None

\* GFPGAN is available without a background upsampler
C17_Witness ==
    /\ LoadFinished
    /\ CapState("sr") = "Unavailable"
    /\ gfpgan_model # None
    /\ gfpgan_model.bg_upsampler = None

\* C18 as stated: the outscale of every Real-ESRGAN call is the scale of the
\* request and is one of 1, 2, 3, 4: no request with another scale reaches a
\* Real-ESRGAN call in /enhance, /upscale or /process.
C18_Original ==
    HandledPost
        => \A i \in Calls("realesrgan") :
              /\ response.trace[i].arg.outscale = request.body.scale
              /\ \E n \in 1..4 : response.trace[i].arg.outscale = {n}

\* the values denoise_strength takes
DenoiseValues == {FieldOr(f, DefaultDenoiseTenths) : f \in DenoiseInputs}

WithDenoise(req, d) == [req EXCEPT !.denoise_strength = d]

\* C19: denoise_strength has no effect: on every endpoint and in every
\* capability state, a request and the same request with another
\* denoise_strength get the same answer, with the same calls on the same
\* arguments, from the same collaborators.
C19_DenoiseIgnored ==
    request.endpoint \in PostEndpoints
        => /\ \A d \in DenoiseValues, env \in Envs :
                 Handle(request.endpoint, WithDenoise(request.body, d), env)
                    = Handle(request.endpoint, request.body, env)
           /\ Handled
                 => \A d \in DenoiseValues :
                       \E env \in Envs :
                          response = Handle(request.endpoint,
                                            WithDenoise(request.body, d), env)

\* a request with denoise_strength 1.0 has got the answer of the same request
\* with the default denoise_strength
C19_Witness ==
    /\ HandledAt("/process")
    /\ request.body.denoise_strength = {10}
    /\ response.status = 200
    /\ Calls("realesrgan") # {}
    /\ \E env \in Envs :
          response = Handle("/process",
                            WithDenoise(request.body, {DefaultDenoiseTenths}), env)

\* two answers that differ at most in the message of their result
SameButMessage(a, b) ==
    /\ a.status = b.status
    /\ a.detail = b.detail
    /\ a.trace = b.trace
    /\ IF a.status = 200
       THEN /\ a.body.image = b.body.image
            /\ a.body.width = b.body.width
            /\ a.body.height = b.body.height
       ELSE a.body = b.body

TraceOps(r) == [i \in DOMAIN r.trace |-> r.trace[i].op]

\* C20: /enhance and /upscale are one pipeline: for every request, capability
\* state and collaborator behaviour they give the same status, make the same
\* calls (decode, one Real-ESRGAN call with the request's scale, encode) and,
\* on success, return the same image, width and height; only the message
\* differs.
C20_EnhanceIsUpscale ==
    request.endpoint \in {"/enhance", "/upscale"}
        => /\ \A env \in Envs :
                 LET a == enhance_image(request.body, env)
                     b == upscale_image(request.body, env)
                 IN  /\ SameButMessage(a, b)
                     /\ a.status = 200
                           => /\ TraceOps(a) = <<"decode", "realesrgan", "encode">>
                              /\ a.trace[2].arg.outscale = request.body.scale
                              /\ a.body.message # b.body.message
           /\ HandledAt("/enhance")
                 => \E env \in Envs : SameButMessage(response, upscale_image(request.body, env))
           /\ HandledAt("/upscale")
                 => \E env \in Envs : SameButMessage(response, enhance_image(request.body, env))

\* /enhance has returned what /upscale returns for the request, scale 3
C20_Witness ==
    /\ HandledAt("/enhance")
    /\ request.body.scale = {3}
    /\ response.status = 200
    /\ \E env \in Envs :
          /\ SameButMessage(response, upscale_image(request.body, env))
          /\ response.body.message # upscale_image(request.body, env).body.message

\* C16 as stated: decode_base64_image decodes, of a string with a comma,
\* everything after the first comma, further commas included, and of a string
\* without a comma the whole string.
C16_Original ==
    pc = "decode" /\ response # NoResponse
        => LET str == request.body.image
           IN  <<response.payload>>
                  = IF Len(str) >= 2 THEN SubSeq(str, 2, Len(str)) ELSE str

\* C15: whatever requests are in flight together and however the statements
\* of their handlers interleave, each request gets the answer (status, detail,
\* result, calls) its handler gives when it runs alone in the same capability
\* state with the same collaborators; and no request changes a global model.
C15_AsIfAlone ==
    /\ \A s \in Slots :
          response[s].stage = "done"
             => response[s].out
                  = Handle(request[s].endpoint, request[s].body, request[s].env)
    /\ LoadFinished => \A cap \in Caps : (Model(cap) # None) = ~faulted[cap]

\* two requests have been answered, one with 200 and one with 500, each
\* having taken steps while the other was inside its handler
C15_Witness ==
    \E s, t \in Slots :
        /\ s # t
        /\ response[s].stage = "done" /\ response[t].stage = "done"
        /\ response[s].mixed /\ response[t].mixed
        /\ response[s].out.status = 200
        /\ Len(response[s].out.trace) = 4
        /\ response[t].out.status = 500

====
